---- MODULE Spec2Model ----
(***************************************************************************)
(* Model of covidApp.py: the memoised loader/transformer get_data and the  *)
(* Streamlit script around it (title, sidebar, region filter, rendering).  *)
(*                                                                         *)
(* A DataFrame is a sequence of records; every row carries its index label *)
(* idx, because pandas aligns column assignments on the index.  A nullable *)
(* number is a set: {} is NaN/null, {v} is the value v.  A missing         *)
(* maille_nom is the name NoName.  Dates are integers ordered like the ISO *)
(* date strings of the CSV.                                                *)
(***************************************************************************)
EXTENDS Integers, Sequences, FiniteSets, TLC

VARIABLES csv, cache, fetches, pc, df_covid19_region, df_covid19_fr,
          regions, multiselection, page

vars == <<csv, cache, fetches, pc, df_covid19_region, df_covid19_fr,
          regions, multiselection, page>>

----------------------------------------------------------------------------
(* Bounds and value domains of the inputs *)

MaxRows == 3
MaxDate == 2
MaxFetches == 2

Null == {}
NoName == "<NaN>"
URL_OPENCOVID19 == "chiffres-cles.csv"
Urls == {URL_OPENCOVID19}

Dates == 1..MaxDate
RegionNames == {"A", "B"}
\* <<cas_confirmes, deces>> of a row
Counts == {<<0, 0>>, <<0, 6>>, <<50, 9>>, <<70, 5>>}

\* Order of the names under Python string comparison (NaN is placed apart)
NameOrd(n) ==
    CASE n = "A" -> 1
      [] n = "B" -> 2
      [] n = "France" -> 3
      [] n = "Grand Est" -> 4
      [] OTHER -> 9

Row(d, g, s, m, c, dc, r) ==
    [date |-> d, granularite |-> g, source_type |-> s, maille_nom |-> m,
     cas_confirmes |-> c, deces |-> dc, reanimation |-> r]

----------------------------------------------------------------------------
(* pandas primitives *)

Range(s) == {s[i] : i \in 1..Len(s)}

\* pd.read_csv: the parsed frame gets a RangeIndex
ReadCsv(text) == [i \in 1..Len(text) |-> text[i] @@ [idx |-> i]]

\* key order of sort_values(by=["maille_nom", "date"]); NaN names last
NameBefore(a, b) ==
    /\ a # NoName
    /\ b = NoName \/ NameOrd(a) < NameOrd(b)

RowBeforeNameOnly(r1, r2, dateAscending) ==
    NameBefore(r1.maille_nom, r2.maille_nom)

\* r1 sorts strictly before r2 under by=["maille_nom", "date"],
\* ascending=[True, dateAscending]
RowBefore(r1, r2, dateAscending) ==
    \/ NameBefore(r1.maille_nom, r2.maille_nom)
    \/ /\ r1.maille_nom = r2.maille_nom
       /\ IF dateAscending THEN r1.date < r2.date ELSE r1.date > r2.date

RECURSIVE InsertSorted(_, _, _)
InsertSorted(sorted, r, dateAscending) ==
    IF sorted = <<>> THEN <<r>>
    ELSE IF RowBefore(r, sorted[Len(sorted)], dateAscending)
         THEN Append(InsertSorted(SubSeq(sorted, 1, Len(sorted) - 1), r,
                                  dateAscending),
                     sorted[Len(sorted)])
         ELSE Append(sorted, r)

RECURSIVE SortValues(_, _)
\* DataFrame.sort_values on several keys: a stable sort
SortValues(df, dateAscending) ==
    IF df = <<>> THEN <<>>
    ELSE InsertSorted(SortValues(SubSeq(df, 1, Len(df) - 1), dateAscending),
                      df[Len(df)], dateAscending)

\* positions of df that groupby("maille_nom") puts in the group of row i
\* (rows whose key is NaN belong to no group)
GroupOf(df, i) ==
    IF df[i].maille_nom = NoName THEN {}
    ELSE {j \in 1..Len(df) : df[j].maille_nom = df[i].maille_nom}

Max(S) == CHOOSE x \in S : \A y \in S : y <= x

\* the value the previous row of the same group holds, as diff() reads it
DiffNoGroup(df, i, col) ==
    IF i = 1 THEN Null ELSE {df[i][col] - df[i - 1][col]}

DiffAt(df, i, col) ==
    LET earlier == {j \in GroupOf(df, i) : j < i}
    IN  IF earlier = {} THEN Null
        ELSE {df[i][col] - df[Max(earlier)][col]}

\* df.groupby("maille_nom")[col].diff(): a Series on the index of df
GroupDiff(df, col) ==
    [x \in {df[i].idx : i \in 1..Len(df)} |->
        LET i == CHOOSE k \in 1..Len(df) : df[k].idx = x
        IN  DiffAt(df, i, col)]

\* rank(method="first", ascending=True) of row i within its group: by the
\* value of col, equal values in order of appearance
RankFirstAt(df, i, col) ==
    IF GroupOf(df, i) = {} THEN Null
    ELSE {1 + Cardinality({j \in GroupOf(df, i) :
                             \/ df[j][col] < df[i][col]
                             \/ df[j][col] = df[i][col] /\ j < i})}

\* df.groupby("maille_nom")[col].rank(method="first", ascending=True)
GroupRankFirst(df, col) ==
    [x \in {df[i].idx : i \in 1..Len(df)} |->
        LET i == CHOOSE k \in 1..Len(df) : df[k].idx = x
        IN  RankFirstAt(df, i, col)]

\* the value a Series gives the row labelled x when assigned as a column
Aligned(series, x) == IF x \in DOMAIN series THEN series[x] ELSE Null

\* float division of two int columns: x/0 is inf, 0/0 is NaN, nothing raises
TrueDiv(n, d) ==
    IF d = 0
    THEN IF n = 0 THEN [k |-> "nan", n |-> 0, d |-> 1]
         ELSE [k |-> "inf", n |-> 0, d |-> 1]
    ELSE [k |-> "num", n |-> n, d |-> d]

IsNull(f) == f.k = "nan"

----------------------------------------------------------------------------
(* get_data, the transformation *)

IsNational(r) ==
    r.granularite = "pays" /\ r.source_type = "sante-publique-france"

IsRegional(r) ==
    r.granularite = "region" /\ r.source_type = "agences-regionales-sante"

ValueVars == <<"cas_confirmes", "deces", "reanimation">>

AsNullable(r, col) == IF col = "reanimation" THEN r[col] ELSE {r[col]}

MeltOne(df, col) ==
    [i \in 1..Len(df) |->
        [date |-> df[i].date, type |-> col, nombre |-> AsNullable(df[i], col)]]

\* pd.melt(id_vars=["date"], value_vars=ValueVars): one block per value_var
Melt(df) == MeltOne(df, ValueVars[1]) \o MeltOne(df, ValueVars[2])
            \o MeltOne(df, ValueVars[3])

FillNoNa(df) == df

\* DataFrame.fillna(value=0)
FillNa(df) ==
    [i \in 1..Len(df) |->
        [df[i] EXCEPT !.nombre = IF @ = Null THEN {0} ELSE @]]

NationalTable(data) == FillNa(Melt(SelectSeq(data, IsNational)))

AtLeast5(r) == r.deces >= 5

Over5(r) == r.deces > 5
Over50(r) == r.cas_confirmes > 50

RegionalTable(data) ==
    LET sel    == SelectSeq(data, IsRegional)
        sorted == SortValues(sel, TRUE)
        dd     == GroupDiff(sorted, "deces")
        dc     == GroupDiff(sorted, "cas_confirmes")
        r5     == GroupRankFirst(SelectSeq(sorted, Over5), "deces")
        r50    == GroupRankFirst(SelectSeq(sorted, Over50), "cas_confirmes")
    IN  [i \in 1..Len(sorted) |->
            [idx |-> sorted[i].idx,
             date |-> sorted[i].date,
             maille_nom |-> sorted[i].maille_nom,
             cas_confirmes |-> sorted[i].cas_confirmes,
             deces |-> sorted[i].deces,
             delta_deces |-> Aligned(dd, sorted[i].idx),
             delta_cas_confirmes |-> Aligned(dc, sorted[i].idx),
             fatality_rate |-> TrueDiv(sorted[i].deces, sorted[i].cas_confirmes),
             days_after_5_deaths |-> Aligned(r5, sorted[i].idx),
             days_after_50_confirmed |-> Aligned(r50, sorted[i].idx)]]

get_data(text) ==
    LET data == ReadCsv(text)
    IN  [region |-> RegionalTable(data), fr |-> NationalTable(data)]

----------------------------------------------------------------------------
(* The cache of @st.cache and the script around get_data *)

NoMemo(c, url) == <<>>

\* @st.cache keyed by the argument url: <<>> on a miss, <<entry>> on a hit
CacheLookup(c, url) == c[url]

CacheStore(c, url, entry) == [c EXCEPT ![url] = <<entry>>]

RECURSIVE Unique(_)
\* Series.unique(): the distinct values in order of first appearance, NaN too
Unique(names) ==
    IF names = <<>> THEN <<>>
    ELSE LET front == Unique(SubSeq(names, 1, Len(names) - 1))
             last  == names[Len(names)]
         IN  IF last \in Range(front) THEN front ELSE Append(front, last)

IsInNaNNeverEqual(v, values) == v # NoName /\ v \in values

\* Series.isin(values) for one element: NaN is found among values holding NaN
IsIn(v, values) == v \in values

\* df[df["maille_nom"].isin(sel)].sort_values(by=["maille_nom", "date"],
\*                                             ascending=[True, False])
FilterRegions(df, sel) ==
    LET Keep(r) == IsIn(r.maille_nom, sel)
    IN  SortValues(SelectSeq(df, Keep), FALSE)

FilterInPlace(entry, filtered) == [entry EXCEPT !.region = filtered]

\* what the cached entry holds after lines 97-99: boolean indexing and
\* sort_values build new frames and the name is rebound, the cached frame
\* is not written
CachedAfterFilter(entry, filtered) == entry

SwallowedRaise(p) == [pc |-> "sidebar", page |-> p]

\* read_csv raises inside get_data: nothing catches it, the script run ends
\* and Streamlit shows the exception below what was already rendered
UncaughtRaise(p) == [pc |-> "failed", page |-> Append(p, "exception")]

Options == {"graph", "heatmap", "histo"}

\* lines 102-227: what the page shows below the sidebar
Body(option, check_box_table, check_box_analyse) ==
    (IF check_box_table THEN <<"table">> ELSE <<>>)
    \o (CASE option = "graph" ->
                <<"checkbox_log">>
                \o (IF check_box_analyse THEN <<"analyse">> ELSE <<>>)
                \o <<"chart", "chart">>
          [] option = "heatmap" ->
                (IF check_box_analyse THEN <<"analyse">> ELSE <<>>)
                \o <<"chart", "chart", "chart">>
          [] option = "histo" ->
                (IF check_box_analyse THEN <<"analyse">> ELSE <<>>)
                \o <<"chart">>
                \o (IF check_box_analyse THEN <<"analyse">> ELSE <<>>)
                \o <<"chart">>)
    \o <<"footer">>

SidebarWidgets ==
    <<"selectbox", "checkbox_table", "checkbox_analyse", "multiselect",
      "sidebar_info">>

\* line 12
Title ==
    /\ pc = "start"
    /\ page' = Append(page, "title")
    /\ pc' = "get_data"
    /\ UNCHANGED <<csv, cache, fetches, df_covid19_region, df_covid19_fr,
                   regions, multiselection>>

\* line 81, the url already memoised: the cached tables are returned
GetDataHit ==
    /\ pc = "get_data"
    /\ CacheLookup(cache, URL_OPENCOVID19) # <<>>
    /\ df_covid19_region' = CacheLookup(cache, URL_OPENCOVID19)[1].region
    /\ df_covid19_fr' = CacheLookup(cache, URL_OPENCOVID19)[1].fr
    /\ pc' = "sidebar"
    /\ UNCHANGED <<csv, cache, fetches, regions, multiselection, page>>

\* line 81, a miss and read_csv succeeds: fetch, transform, memoise, return
GetDataMiss ==
    /\ pc = "get_data"
    /\ CacheLookup(cache, URL_OPENCOVID19) = <<>>
    /\ fetches[URL_OPENCOVID19] < MaxFetches
    /\ LET entry == get_data(csv)
       IN  /\ cache' = CacheStore(cache, URL_OPENCOVID19, entry)
           /\ df_covid19_region' = entry.region
           /\ df_covid19_fr' = entry.fr
    /\ fetches' = [fetches EXCEPT ![URL_OPENCOVID19] = @ + 1]
    /\ pc' = "sidebar"
    /\ UNCHANGED <<csv, regions, multiselection, page>>

\* line 81, a miss and read_csv raises (network or parse failure)
GetDataRaise ==
    /\ pc = "get_data"
    /\ CacheLookup(cache, URL_OPENCOVID19) = <<>>
    /\ pc' = UncaughtRaise(page).pc
    /\ page' = UncaughtRaise(page).page
    /\ UNCHANGED <<csv, cache, fetches, df_covid19_region, df_covid19_fr,
                   regions, multiselection>>

\* lines 84-94: the sidebar; the multiselect offers regions, default all
Sidebar ==
    /\ pc = "sidebar"
    /\ regions' = Unique([i \in 1..Len(df_covid19_region) |->
                             df_covid19_region[i].maille_nom])
    /\ \E sel \in SUBSET Range(regions') : multiselection' = sel
    /\ page' = page \o SidebarWidgets
    /\ pc' = "filter"
    /\ UNCHANGED <<csv, cache, fetches, df_covid19_region, df_covid19_fr>>

\* lines 97-99: the name df_covid19_region is rebound to the filtered frame
Filter ==
    /\ pc = "filter"
    /\ df_covid19_region' = FilterRegions(df_covid19_region, multiselection)
    /\ cache' = [u \in Urls |->
                    IF cache[u] = <<>> THEN <<>>
                    ELSE <<CachedAfterFilter(cache[u][1], df_covid19_region')>>]
    /\ pc' = "render"
    /\ UNCHANGED <<csv, fetches, df_covid19_fr, regions, multiselection, page>>

\* lines 102-227
Render ==
    /\ pc = "render"
    /\ \E option \in Options, check_box_table \in BOOLEAN,
          check_box_analyse \in BOOLEAN :
          page' = page \o Body(option, check_box_table, check_box_analyse)
    /\ pc' = "done"
    /\ UNCHANGED <<csv, cache, fetches, df_covid19_region, df_covid19_fr,
                   regions, multiselection>>


----------------------------------------------------------------------------
(* Inputs *)

ARS == "agences-regionales-sante"
SPF == "sante-publique-france"

Tables(rows, n) == UNION {[1..k -> rows] : k \in 0..n}

\* rows of tables that exercise the regional branch
RegionRows ==
    {Row(d, "region", ARS, m, c[1], c[2], Null) :
        d \in Dates, m \in RegionNames, c \in Counts}
    \cup {Row(1, "pays", SPF, "France", 70, 9, Null),
          Row(1, "region", SPF, "A", 70, 9, Null)}

\* rows of tables that exercise the national branch
NationalRows ==
    {Row(d, gs[1], gs[2], "France", 70, 5, r) :
        d \in Dates,
        gs \in {<<"pays", SPF>>, <<"pays", "ministere-sante">>, <<"region", ARS>>},
        r \in {Null, {3}}}

\* region "Grand Est" with deces 0, 2, 6, 9 on four consecutive dates, and a
\* row of another region
ExampleRows ==
    <<Row(1, "region", ARS, "Grand Est", 10, 0, Null),
      Row(2, "region", ARS, "Grand Est", 20, 2, Null),
      Row(3, "region", ARS, "Grand Est", 60, 6, Null),
      Row(4, "region", ARS, "Grand Est", 90, 9, Null),
      Row(2, "region", ARS, "A", 70, 6, Null)>>

\* the example's rows in every input order
ExampleTables ==
    {[i \in 1..5 |-> ExampleRows[f[i]]] :
        f \in {g \in [1..5 -> 1..5] : \A a, b \in 1..5 : a # b => g[a] # g[b]}}

TransformInputs ==
    Tables(RegionRows, MaxRows) \cup Tables(NationalRows, MaxRows)
    \cup ExampleTables

MaxAppRows == 2

\* rows of the files the running app is served, some without a maille_nom
AppRows ==
    {Row(1, "region", ARS, "A", 70, 9, Null),
     Row(2, "region", ARS, NoName, 60, 2, Null),
     Row(1, "pays", SPF, "France", 70, 5, {3})}

AppInputs == Tables(AppRows, MaxAppRows)

----------------------------------------------------------------------------
(* Specifications *)

\* a user interaction (or a reload after a failure) reruns the script from
\* the top; the module-level names start unbound, the process and its cache
\* live on, and the file served at the url may have changed meanwhile
Rerun ==
    /\ pc \in {"done", "failed"}
    /\ pc' = "start"
    /\ page' = <<>>
    /\ df_covid19_region' = <<>>
    /\ df_covid19_fr' = <<>>
    /\ regions' = <<>>
    /\ multiselection' = {}
    /\ csv' \in AppInputs
    /\ UNCHANGED <<cache, fetches>>

InitCommon ==
    /\ cache = [u \in Urls |-> <<>>]
    /\ fetches = [u \in Urls |-> 0]
    /\ df_covid19_region = <<>>
    /\ df_covid19_fr = <<>>
    /\ regions = <<>>
    /\ multiselection = {}

\* a fresh process starting the script
Init ==
    /\ InitCommon
    /\ csv \in AppInputs
    /\ pc = "start"
    /\ page = <<>>

Next ==
    \/ Title
    \/ GetDataHit
    \/ GetDataMiss
    \/ GetDataRaise
    \/ Sidebar
    \/ Filter
    \/ Render
    \/ Rerun

Spec == Init /\ [][Next]_vars

\* the first call of get_data of a process, on every input table
InitTransform ==
    /\ InitCommon
    /\ csv \in TransformInputs
    /\ pc = "get_data"
    /\ page = <<"title">>

NextTransform == GetDataMiss

SpecTransform == InitTransform /\ [][NextTransform]_vars


----------------------------------------------------------------------------
(* Vocabulary of the properties, stated on the input file and the tables   *)
(* and not through the operators of the transformation                     *)

Returned == pc = "sidebar"

Rows(t) == 1..Len(t)

NamesIn(t) == {t[i].maille_nom : i \in Rows(t)} \ {NoName}

RegionOf(t, m) == {i \in Rows(t) : t[i].maille_nom = m}

\* row a of the input comes chronologically before row b: earlier date,
\* equal dates in input order
ChronBefore(a, b) == a.date < b.date \/ (a.date = b.date /\ a.idx < b.idx)

\* the chronologically first row of a non-empty set R of rows of t
ChronFirst(t, R) == CHOOSE i \in R : \A j \in R \ {i} : ChronBefore(t[i], t[j])

\* the row of R chronologically just before row i (R's rows before i: P)
ChronPrev(t, P) == CHOOSE j \in P : \A k \in P \ {j} : ChronBefore(t[k], t[j])

Qualifying5(t, m) == {i \in RegionOf(t, m) : t[i].deces > 5}

Qualifying50(t, m) == {i \in RegionOf(t, m) : t[i].cas_confirmes > 50}

\* C1: in every region the non-null days_after_5_deaths are exactly 1..k,
\* k the number of the region's rows with deces > 5, without repeats, and a
\* qualifying row with an earlier date has a smaller rank than one with a
\* later date
C1_RanksFollowDates ==
    Returned =>
        \A m \in NamesIn(df_covid19_region) :
            LET t == df_covid19_region
                Q == Qualifying5(t, m)
            IN  /\ \A i \in RegionOf(t, m) :
                       t[i].days_after_5_deaths # Null <=> i \in Q
                /\ UNION {t[i].days_after_5_deaths : i \in Q}
                       = 1..Cardinality(Q)
                /\ \A i, j \in Q :
                       t[i].date < t[j].date =>
                           \A x \in t[i].days_after_5_deaths,
                              y \in t[j].days_after_5_deaths : x < y

\* C2: in every region delta_deces and delta_cas_confirmes are null on the
\* chronologically first row of the region and on no other row of it
C2_DeltaNullOnFirstRowOnly ==
    Returned =>
        \A m \in NamesIn(df_covid19_region) :
            LET t == df_covid19_region
                R == RegionOf(t, m)
            IN  \A i \in R :
                    /\ t[i].delta_deces = Null <=> i = ChronFirst(t, R)
                    /\ t[i].delta_cas_confirmes = Null <=> i = ChronFirst(t, R)

\* two regions interleaved in the input, one of them with its rows in
\* reverse date order
C2_Witness ==
    /\ Returned
    /\ Len(df_covid19_region) = 3
    /\ df_covid19_region[1].maille_nom = "A"
    /\ df_covid19_region[2].maille_nom = "A"
    /\ df_covid19_region[3].maille_nom = "B"
    /\ df_covid19_region[1].idx = 3
    /\ df_covid19_region[2].idx = 1
    /\ df_covid19_region[1].delta_deces = Null
    /\ df_covid19_region[2].delta_deces # Null
    /\ df_covid19_region[3].delta_deces = Null

\* C3: fatality_rate is null exactly on the rows with cas_confirmes = 0 and
\* is the quotient deces / cas_confirmes on every other row
C3_FatalityNullIffNoCases ==
    Returned =>
        \A i \in Rows(df_covid19_region) :
            LET r == df_covid19_region[i]
            IN  /\ IsNull(r.fatality_rate) <=> r.cas_confirmes = 0
                /\ r.cas_confirmes # 0 =>
                       /\ r.fatality_rate.k = "num"
                       /\ r.fatality_rate.n * r.cas_confirmes
                              = r.deces * r.fatality_rate.d

MetricOf(r, metric) ==
    CASE metric = "cas_confirmes" -> {r.cas_confirmes}
      [] metric = "deces" -> {r.deces}
      [] metric = "reanimation" -> r.reanimation

Metrics == {"cas_confirmes", "deces", "reanimation"}

\* the national row the claim expects for a selected input row and a metric
ExpectedNational(r, metric) ==
    [date |-> r.date, type |-> metric,
     nombre |-> IF MetricOf(r, metric) = Null THEN {0} ELSE MetricOf(r, metric)]

SelectedNational ==
    {i \in Rows(csv) : csv[i].granularite = "pays"
                       /\ csv[i].source_type = "sante-publique-france"}

\* C5: the national table holds, for each selected input row and each of the
\* three metrics, exactly one row (date, metric name, value or 0 when null)
\* and no other row: 3 rows per selected row
C5_NationalUnpivot ==
    Returned =>
        /\ Len(df_covid19_fr) = 3 * Cardinality(SelectedNational)
        /\ \A x \in Range(df_covid19_fr)
                    \cup {ExpectedNational(csv[i], m) :
                             i \in SelectedNational, m \in Metrics} :
               Cardinality({k \in Rows(df_covid19_fr) : df_covid19_fr[k] = x})
                   = Cardinality({im \in SelectedNational \X Metrics :
                                     ExpectedNational(csv[im[1]], im[2]) = x})

\* two selected rows, one with a null reanimation, and a row that is not
\* selected
C5_Witness ==
    /\ Returned
    /\ Cardinality(SelectedNational) = 2
    /\ Len(csv) = 3
    /\ \E i, j \in SelectedNational :
          csv[i].reanimation = Null /\ csv[j].reanimation # Null
    /\ Len(df_covid19_fr) = 6

\* C9: every row that is not the chronologically first of its region has
\* delta_deces = its deces minus the deces of the chronologically preceding
\* row of the same region, delta_cas_confirmes likewise, however the regions
\* are interleaved in the input; a rank never counts rows of another region;
\* a region with deces 0, 2, 6, 9 on four consecutive dates gets delta_deces
\* null, 2, 4, 3 and days_after_5_deaths null, null, 1, 2
C9_DeltaWithinRegion ==
    Returned =>
        LET t == df_covid19_region
        IN  /\ \A i \in Rows(t) :
                   LET P == {j \in RegionOf(t, t[i].maille_nom) :
                                ChronBefore(t[j], t[i])}
                   IN  P # {} =>
                           /\ t[i].delta_deces
                                  = {t[i].deces - t[ChronPrev(t, P)].deces}
                           /\ t[i].delta_cas_confirmes
                                  = {t[i].cas_confirmes
                                         - t[ChronPrev(t, P)].cas_confirmes}
            /\ \A i \in Rows(t) :
                   /\ \A v \in t[i].days_after_5_deaths :
                          v <= Cardinality(Qualifying5(t, t[i].maille_nom))
                   /\ \A v \in t[i].days_after_50_confirmed :
                          v <= Cardinality(Qualifying50(t, t[i].maille_nom))
            /\ \A m \in NamesIn(t) :
                   LET R == RegionOf(t, m)
                   IN  (/\ Cardinality(R) = 4
                        /\ {t[i].deces : i \in R} = {0, 2, 6, 9}) =>
                           LET Day(v) == CHOOSE i \in R : t[i].deces = v
                           IN  (/\ t[Day(2)].date = t[Day(0)].date + 1
                                /\ t[Day(6)].date = t[Day(2)].date + 1
                                /\ t[Day(9)].date = t[Day(6)].date + 1) =>
                                   /\ t[Day(0)].delta_deces = Null
                                   /\ t[Day(2)].delta_deces = {2}
                                   /\ t[Day(6)].delta_deces = {4}
                                   /\ t[Day(9)].delta_deces = {3}
                                   /\ t[Day(0)].days_after_5_deaths = Null
                                   /\ t[Day(2)].days_after_5_deaths = Null
                                   /\ t[Day(6)].days_after_5_deaths = {1}
                                   /\ t[Day(9)].days_after_5_deaths = {2}

\* the example region, its rows given in reverse date order with a row of
\* another region between them
C9_Witness ==
    /\ Returned
    /\ Len(csv) = 5
    /\ csv[1].maille_nom = "Grand Est" /\ csv[1].deces = 9
    /\ csv[2].maille_nom = "Grand Est" /\ csv[2].deces = 6
    /\ csv[3].maille_nom = "A"
    /\ csv[4].maille_nom = "Grand Est" /\ csv[4].deces = 2
    /\ csv[5].maille_nom = "Grand Est" /\ csv[5].deces = 0
    /\ \E i \in Rows(df_covid19_region) :
          /\ df_covid19_region[i].maille_nom = "Grand Est"
          /\ df_covid19_region[i].delta_deces = {4}
          /\ df_covid19_region[i].days_after_5_deaths = {1}

----------------------------------------------------------------------------
(* Properties of the running app *)

\* C4: once the url is memoised, no step fetches it again and every later
\* call returns the memoised tables; the url is fetched successfully at most
\* once in the life of the process
C4_MemoisedForProcessLifetime ==
    [][\A u \in Urls :
          /\ fetches'[u] <= 1
          /\ cache[u] # <<>> =>
                /\ fetches'[u] = fetches[u]
                /\ (pc = "get_data" /\ pc' # "get_data") =>
                       /\ pc' = "sidebar"
                       /\ df_covid19_region' = cache[u][1].region
                       /\ df_covid19_fr' = cache[u][1].fr]_vars

\* a later run is served the memoised tables although the file at the url
\* has changed since the one fetch
C4_Witness ==
    /\ pc = "sidebar"
    /\ fetches[URL_OPENCOVID19] = 1
    /\ cache[URL_OPENCOVID19] # <<>>
    /\ df_covid19_region = cache[URL_OPENCOVID19][1].region
    /\ df_covid19_fr = cache[URL_OPENCOVID19][1].fr
    /\ get_data(csv) # cache[URL_OPENCOVID19][1]

\* C6: with every region of the multiselect selected, the filtered table has
\* exactly the rows of the unfiltered regional table, in some order
C6_FullSelectionKeepsAllRows ==
    (pc = "render" /\ multiselection = Range(regions)) =>
        LET whole == cache[URL_OPENCOVID19][1].region
        IN  /\ Len(df_covid19_region) = Len(whole)
            /\ \A x \in Range(df_covid19_region) \cup Range(whole) :
                   Cardinality({k \in Rows(df_covid19_region) :
                                   df_covid19_region[k] = x})
                       = Cardinality({k \in Rows(whole) : whole[k] = x})

\* the full selection on a table with a named region and a row whose
\* maille_nom is missing
C6_Witness ==
    /\ pc = "render"
    /\ multiselection = Range(regions)
    /\ NoName \in multiselection
    /\ "A" \in multiselection
    /\ Len(df_covid19_region) = 2

\* C7 as stated: after a failed load the page shows the failure message and
\* nothing else, and nothing is bound or memoised
C7_OnlyFailureMessage ==
    pc = "failed" =>
        /\ page = <<"exception">>
        /\ cache[URL_OPENCOVID19] = <<>>
        /\ df_covid19_region = <<>> /\ df_covid19_fr = <<>>

\* C7 amended: after a failed load the page shows the title, rendered before
\* the load, and then the failure message and nothing else; nothing is bound
\* or memoised; and whatever else a page shows was produced from memoised,
\* successfully loaded tables
C7_TitleThenFailureMessage ==
    /\ pc = "failed" =>
          /\ page = <<"title", "exception">>
          /\ cache[URL_OPENCOVID19] = <<>>
          /\ df_covid19_region = <<>> /\ df_covid19_fr = <<>>
          /\ regions = <<>>
    /\ Range(page) \ {"title", "exception"} # {} =>
          /\ cache[URL_OPENCOVID19] # <<>>
          /\ "exception" \notin Range(page)

C7_Witness ==
    /\ pc = "failed"
    /\ page = <<"title", "exception">>
    /\ Len(csv) > 0

\* C8: the memoised tables never change once stored, whatever is selected
\* and however often the script is rerun
C8_ReturnedTablesNeverChange ==
    [][\A u \in Urls : cache[u] # <<>> => cache'[u] = cache[u]]_vars

\* a rerun served from the cache has filtered down to a proper part of the
\* regional table, and the memoised table still has all its rows
C8_Witness ==
    /\ pc = "render"
    /\ fetches[URL_OPENCOVID19] = 1
    /\ get_data(csv) # cache[URL_OPENCOVID19][1]
    /\ Len(df_covid19_region) = 1
    /\ Len(cache[URL_OPENCOVID19][1].region) = 2

====
